---------------------------- MODULE Spec2Model ----------------------------
(***************************************************************************)
(* Model of 07_stochastic_gradient_descent.ipynb: the loss L, the gradient *)
(* evaluator G and the four optimizer cells (batch, stochastic, momentum,  *)
(* RMSprop) of the notebook, executed by one Python kernel.                *)
(*                                                                         *)
(* Numbers.  The notebook computes in float64.  The model computes in      *)
(* decimal fixed point: an integer k stands for k / Scale, sums and        *)
(* differences are exact, and every product, quotient and square root is   *)
(* rounded to the nearest representable value, as a floating-point unit    *)
(* rounds each operation.  The one quantity below the resolution, the      *)
(* stabilizer 1e-8 of the RMSprop cell, is kept exactly: a denominator     *)
(* sqrt(g2) + 1e-8 is held in units of 1 / Fine.                           *)
(***************************************************************************)
EXTENDS Integers, Sequences, FiniteSets, TLC

VARIABLES
    x, y,               \* the dataset (cell 2): sequences of numbers
    w,                  \* the parameter vector, updated in place
    eta, momentum,      \* learning rate, momentum coefficient
    delta_w, g2,        \* accumulators of the momentum and RMSprop cells
    gradient, denom,    \* RMSprop: the gradient and the denominator of a step
    rng,                \* position in the process-wide random stream
    random_indices,     \* the permutation drawn for the current epoch
    i, jpos,            \* epoch counter; position of `for j in random_indices`
    w_batch, w_stoch, w_epoch, w_momen, w_mepoch,   \* recorded trajectories
    pc,                 \* what the kernel is executing
    next_cell,          \* next cell of the first top-to-bottom pass
    reruns,             \* cells re-executed after the first pass
    rng0, visited,      \* history: stream position at run start, samples of the epoch
    runs                \* history: one record per completed optimizer run

vars == <<x, y, w, eta, momentum, delta_w, g2, gradient, denom, rng,
          random_indices, i, jpos, w_batch, w_stoch, w_epoch, w_momen,
          w_mepoch, pc, next_cell, reruns, rng0, visited, runs>>

-----------------------------------------------------------------------------
(* Bounds of the model *)

\* epochs per run (the notebook loops range(10000))
Epochs == 2
\* dataset size of the notebook's generated dataset (the notebook uses 21)
NumPoints == 2
\* cells re-executed by the user after the first top-to-bottom pass
MaxReruns == 3
\* gradient-evaluator inputs: w and ys range over -MaxVal..MaxVal, xs over 0..MaxVal
MaxVal == 1
\* gradient-evaluator inputs: sequences of length 0..MaxLen
MaxLen == 2

-----------------------------------------------------------------------------
(* float64 arithmetic, modelled in decimal fixed point *)

Scale == 10000
Fine == 100000000

Abs(a) == IF a < 0 THEN -a ELSE a
Sgn(a) == IF a < 0 THEN -1 ELSE 1

\* n / d rounded to the nearest integer, halves away from zero (d > 0)
RoundDiv(n, d) == Sgn(n) * ((2 * Abs(n) + d) \div (2 * d))

\* a * b of two fixed-point numbers, rounded to the nearest representable
FMulAbs(a, b) ==
    LET ah == a \div Scale
        al == a % Scale
        bh == b \div Scale
        bl == b % Scale
    IN  ah * bh * Scale + ah * bl + al * bh + RoundDiv(al * bl, Scale)

FMul(a, b) == Sgn(a) * Sgn(b) * FMulAbs(Abs(a), Abs(b))

\* the number v (an integer) as a fixed-point number
Num(v) == v * Scale

RECURSIVE ISqrtBetween(_, _, _)
ISqrtBetween(n, lo, hi) ==
    IF lo >= hi THEN lo
    ELSE LET mid == (lo + hi + 1) \div 2
         IN  IF mid * mid <= n THEN ISqrtBetween(n, mid, hi)
                               ELSE ISqrtBetween(n, lo, mid - 1)

\* np.sqrt of a fixed-point number a >= 0 (rounded down to the grid)
FSqrt(a) == ISqrtBetween(a * Scale, 0, 46340)

-----------------------------------------------------------------------------
(* numpy arrays: 1-D arrays are sequences, indices are 0-based in the code *)

\* shapes (n,) and (m,) broadcast together iff equal or one of them is 1
Broadcastable(n, m) == n = m \/ n = 1 \/ m = 1
BroadcastLen(n, m) == IF n = 1 THEN m ELSE n

\* element k of array a stretched to the broadcast shape
At(a, k) == IF Len(a) = 1 THEN a[1] ELSE a[k]

\* Python's builtin sum: a left fold starting from the integer 0
RECURSIVE PySum(_)
PySum(a) == IF Len(a) = 0 THEN 0 ELSE PySum(SubSeq(a, 1, Len(a) - 1)) + a[Len(a)]

\* y - w[0] - w[1]*x, the residual array
Residual(w_, xs, ys) ==
    [k \in 1..BroadcastLen(Len(ys), Len(xs)) |->
        (At(ys, k) - w_[1]) - FMul(w_[2], At(xs, k))]

\* def L(w,x,y): return 1./2.*sum((y - w[0] - w[1]*x)**2)
L(w_, xs, ys) ==
    LET res == Residual(w_, xs, ys)
    IN  FMul(Scale \div 2, PySum([k \in 1..Len(res) |-> FMul(res[k], res[k])]))

\* G raises ValueError (operands could not be broadcast together)
GRaises(xs, ys) == ~Broadcastable(Len(ys), Len(xs))

GMissingFactor(w_, xs, ys) ==
    LET res == Residual(w_, xs, ys)
    IN  <<-PySum(res), -PySum(res)>>

GWrongSign(w_, xs, ys) ==
    LET res  == Residual(w_, xs, ys)
        resx == [k \in 1..BroadcastLen(Len(res), Len(xs)) |->
                    FMul(At(res, k), At(xs, k))]
    IN  <<PySum(res), PySum(resx)>>

\* def G(w,x,y):
\*     return np.array([-sum(y - w[0] - w[1]*x),-sum((y - w[0] - w[1]*x)*x)])
G(w_, xs, ys) ==
    LET res  == Residual(w_, xs, ys)
        resx == [k \in 1..BroadcastLen(Len(res), Len(xs)) |->
                    FMul(At(res, k), At(xs, k))]
    IN  <<-PySum(res), -PySum(resx)>>

GradientStepAscent(w_, eta_, g) == <<w_[1] + FMul(eta_, g[1]), w_[2] + FMul(eta_, g[2])>>

\* w -= eta*G(w,x,y)
GradientStep(w_, eta_, g) == <<w_[1] - FMul(eta_, g[1]), w_[2] - FMul(eta_, g[2])>>

-----------------------------------------------------------------------------
(* The process-wide random stream (numpy.random) *)

\* The generator's state is fixed by the seed and the number of values drawn
\* since; rng is that position.  What a position yields is a fixed function
\* of it, standing in for the Mersenne Twister's output.
Mix(k) == (k * k) \div 3 + k

RECURSIVE Fact(_)
Fact(n) == IF n <= 1 THEN 1 ELSE n * Fact(n - 1)

Remove(s, p) == SubSeq(s, 1, p - 1) \o SubSeq(s, p + 1, Len(s))

\* the idx-th arrangement (in lexicographic order) of the items of s
RECURSIVE NthPerm(_, _)
NthPerm(s, idx) ==
    IF Len(s) = 0 THEN <<>>
    ELSE LET f == Fact(Len(s) - 1)
             p == (idx \div f) + 1
         IN  <<s[p]>> \o NthPerm(Remove(s, p), idx % f)

\* a draw with replacement (replace=True)
ChoiceWithReplacement(k, n) == [p \in 1..n |-> Mix(k + p) % n]

\* np.random.choice(range(len(x)),len(x),replace=False) at stream position k
Choice(k, n) == NthPerm([p \in 1..n |-> p - 1], Mix(k) % Fact(n))

\* np.random.randn at stream position k: one of -1.0, -0.5, 0.0, 0.5, 1.0
Randn(k) == (((7 * k + 3) % 5) - 2) * (Scale \div 2)

\* np.linspace(0,1,n)
Linspace(n) == [k \in 1..n |-> RoundDiv((k - 1) * Scale, n - 1)]

-----------------------------------------------------------------------------
(* The kernel: cells run top to bottom once, then any cell may be re-run *)

ZeroVec == <<0, 0>>

SeedCellNo == 1
DataCellNo == 2
InitCellNo == 3
BatchCellNo == 4
StochCellNo == 5
MomenCellNo == 6
RmsCellNo == 7
NumCells == 7

CanRun(c) ==
    /\ pc = "idle"
    /\ \/ next_cell = c
       \/ next_cell > NumCells /\ reruns < MaxReruns

Scheduled(c) ==
    /\ next_cell' = IF next_cell = c THEN c + 1 ELSE next_cell
    /\ reruns' = IF next_cell > NumCells THEN reruns + 1 ELSE reruns

RunRecord(variant, steps, epochs) ==
    [variant |-> variant, x |-> x, y |-> y, eta |-> eta, momentum |-> momentum,
     rng0 |-> rng0, rng1 |-> rng, steps |-> steps, epochs |-> epochs]

Init ==
    /\ x = <<>> /\ y = <<>>
    /\ w = ZeroVec
    /\ eta = 0 /\ momentum = 0
    /\ delta_w = ZeroVec /\ g2 = ZeroVec
    /\ gradient = ZeroVec /\ denom = ZeroVec
    /\ rng = 0 /\ rng0 = 0
    /\ random_indices = <<>> /\ visited = <<>>
    /\ i = 0 /\ jpos = 0
    /\ w_batch = <<>> /\ w_stoch = <<>> /\ w_epoch = <<>>
    /\ w_momen = <<>> /\ w_mepoch = <<>>
    /\ pc = "idle" /\ next_cell = SeedCellNo /\ reruns = 0
    /\ runs = <<>>

\* np.random.seed(0)
SeedCell ==
    /\ CanRun(SeedCellNo) /\ Scheduled(SeedCellNo)
    /\ rng' = 0
    /\ UNCHANGED <<x, y, w, eta, momentum, delta_w, g2, gradient, denom,
                   random_indices, i, jpos, w_batch, w_stoch, w_epoch,
                   w_momen, w_mepoch, pc, rng0, visited, runs>>

\* x = np.linspace(0,1,21); y = x + np.random.randn(len(x))*0.1 + 1.0
DataCell ==
    /\ CanRun(DataCellNo) /\ Scheduled(DataCellNo)
    /\ x' = Linspace(NumPoints)
    /\ y' = [k \in 1..NumPoints |->
                Linspace(NumPoints)[k] + FMul(Randn(rng + k - 1), Scale \div 10)
                    + Num(1)]
    /\ rng' = rng + NumPoints
    /\ UNCHANGED <<w, eta, momentum, delta_w, g2, gradient, denom,
                   random_indices, i, jpos, w_batch, w_stoch, w_epoch,
                   w_momen, w_mepoch, pc, rng0, visited, runs>>

\* w = np.array([0.,0.])
InitCell ==
    /\ CanRun(InitCellNo) /\ Scheduled(InitCellNo)
    /\ w' = ZeroVec
    /\ UNCHANGED <<x, y, eta, momentum, delta_w, g2, gradient, denom, rng,
                   random_indices, i, jpos, w_batch, w_stoch, w_epoch,
                   w_momen, w_mepoch, pc, rng0, visited, runs>>

-----------------------------------------------------------------------------
(* Cell 4: batch gradient descent *)

\* w_batch = [w.copy()]; eta = 0.01
BatchBegin ==
    /\ CanRun(BatchCellNo) /\ Scheduled(BatchCellNo)
    /\ w_batch' = <<w>>
    /\ eta' = Scale \div 100
    /\ i' = 0
    /\ rng0' = rng
    /\ pc' = "batch"
    /\ UNCHANGED <<x, y, w, momentum, delta_w, g2, gradient, denom, rng,
                   random_indices, jpos, w_stoch, w_epoch, w_momen, w_mepoch,
                   visited, runs>>

BatchIterSampling ==
    /\ pc = "batch" /\ i < Epochs
    /\ LET j == Mix(rng) % Len(x)
       IN  w' = GradientStep(w, eta, G(w, <<x[j + 1]>>, <<y[j + 1]>>))
    /\ rng' = rng + 1
    /\ w_batch' = Append(w_batch, w')
    /\ i' = i + 1
    /\ UNCHANGED <<x, y, eta, momentum, delta_w, g2, gradient, denom,
                   random_indices, jpos, w_stoch, w_epoch, w_momen, w_mepoch,
                   pc, next_cell, reruns, rng0, visited, runs>>

\* one iteration of the loop: w -= eta*G(w,x,y); w_batch.append(w.copy())
BatchIter ==
    /\ pc = "batch" /\ i < Epochs
    /\ IF GRaises(x, y)
       THEN /\ pc' = "raised"
            /\ UNCHANGED <<w, w_batch, i>>
       ELSE /\ w' = GradientStep(w, eta, G(w, x, y))
            /\ w_batch' = Append(w_batch, w')
            /\ i' = i + 1
            /\ pc' = pc
    /\ UNCHANGED <<x, y, eta, momentum, delta_w, g2, gradient, denom, rng,
                   random_indices, jpos, w_stoch, w_epoch, w_momen, w_mepoch,
                   next_cell, reruns, rng0, visited, runs>>

\* the loop is over: w_batch = np.array(w_batch)
BatchEnd ==
    /\ pc = "batch" /\ i = Epochs
    /\ pc' = "idle"
    /\ runs' = Append(runs, RunRecord("batch", w_batch, <<>>))
    /\ UNCHANGED <<x, y, w, eta, momentum, delta_w, g2, gradient, denom, rng,
                   random_indices, i, jpos, w_batch, w_stoch, w_epoch,
                   w_momen, w_mepoch, next_cell, reruns, rng0, visited>>

-----------------------------------------------------------------------------
(* Cell 5: stochastic gradient descent *)

\* x_sample = x[j]; y_sample = y[j]  (j is 0-based)
Sample(a, j) == <<a[j + 1]>>

StochBeginKeepingW ==
    /\ CanRun(StochCellNo) /\ Scheduled(StochCellNo)
    /\ w_stoch' = <<w>>
    /\ w_epoch' = <<w>>
    /\ eta' = Scale \div 100
    /\ i' = 0
    /\ rng0' = rng
    /\ pc' = "stoch_epoch"
    /\ UNCHANGED <<x, y, w, momentum, delta_w, g2, gradient, denom, rng,
                   random_indices, jpos, w_batch, w_momen, w_mepoch, visited,
                   runs>>

\* w = np.array([0.,0.]); w_stoch = [w.copy()]; w_epoch = [w.copy()]; eta = 0.01
StochBegin ==
    /\ CanRun(StochCellNo) /\ Scheduled(StochCellNo)
    /\ w' = ZeroVec
    /\ w_stoch' = <<w'>>
    /\ w_epoch' = <<w'>>
    /\ eta' = Scale \div 100
    /\ i' = 0
    /\ rng0' = rng
    /\ pc' = "stoch_epoch"
    /\ UNCHANGED <<x, y, momentum, delta_w, g2, gradient, denom, rng,
                   random_indices, jpos, w_batch, w_momen, w_mepoch, visited,
                   runs>>

\* top of `for i in range(...)`: random_indices = np.random.choice(...)
StochDraw ==
    /\ pc = "stoch_epoch" /\ i < Epochs
    /\ random_indices' = Choice(rng, Len(x))
    /\ rng' = rng + 1
    /\ jpos' = 1
    /\ visited' = <<>>
    /\ pc' = "stoch_step"
    /\ UNCHANGED <<x, y, w, eta, momentum, delta_w, g2, gradient, denom, i,
                   w_batch, w_stoch, w_epoch, w_momen, w_mepoch, next_cell,
                   reruns, rng0, runs>>

\* the step with w_stoch.append(w): every entry is the one array w
StochStepAppendsAlias ==
    /\ pc = "stoch_step" /\ jpos <= Len(random_indices)
    /\ LET j == random_indices[jpos]
       IN  /\ w' = GradientStep(w, eta, G(w, Sample(x, j), Sample(y, j)))
           /\ visited' = Append(visited, j)
    /\ w_stoch' = <<w_stoch[1]>> \o [k \in 1..Len(w_stoch) |-> w']
    /\ jpos' = jpos + 1
    /\ UNCHANGED <<x, y, eta, momentum, delta_w, g2, gradient, denom, rng,
                   random_indices, i, w_batch, w_epoch, w_momen, w_mepoch, pc,
                   next_cell, reruns, rng0, runs>>

\* body of `for j in random_indices`:
\* w -= eta*G(w,np.array([x_sample]),np.array([y_sample])); w_stoch.append(w.copy())
StochStep ==
    /\ pc = "stoch_step" /\ jpos <= Len(random_indices)
    /\ LET j == random_indices[jpos]
       IN  /\ w' = GradientStep(w, eta, G(w, Sample(x, j), Sample(y, j)))
           /\ visited' = Append(visited, j)
    /\ w_stoch' = Append(w_stoch, w')
    /\ jpos' = jpos + 1
    /\ UNCHANGED <<x, y, eta, momentum, delta_w, g2, gradient, denom, rng,
                   random_indices, i, w_batch, w_epoch, w_momen, w_mepoch, pc,
                   next_cell, reruns, rng0, runs>>

StochEpochEndRecordsEpochStart ==
    /\ pc = "stoch_step" /\ jpos > Len(random_indices)
    /\ w_epoch' = Append(w_epoch, w_stoch[Len(w_stoch) - Len(random_indices)])
    /\ i' = i + 1
    /\ pc' = "stoch_epoch"
    /\ UNCHANGED <<x, y, w, eta, momentum, delta_w, g2, gradient, denom, rng,
                   random_indices, jpos, w_batch, w_stoch, w_momen, w_mepoch,
                   next_cell, reruns, rng0, visited, runs>>

\* end of the epoch: w_epoch.append(w.copy())
StochEpochEnd ==
    /\ pc = "stoch_step" /\ jpos > Len(random_indices)
    /\ w_epoch' = Append(w_epoch, w)
    /\ i' = i + 1
    /\ pc' = "stoch_epoch"
    /\ UNCHANGED <<x, y, w, eta, momentum, delta_w, g2, gradient, denom, rng,
                   random_indices, jpos, w_batch, w_stoch, w_momen, w_mepoch,
                   next_cell, reruns, rng0, visited, runs>>

\* the loop is over: w_stoch = np.array(w_stoch); w_epoch = np.array(w_epoch)
StochEnd ==
    /\ pc = "stoch_epoch" /\ i = Epochs
    /\ pc' = "idle"
    /\ runs' = Append(runs, RunRecord("stoch", w_stoch, w_epoch))
    /\ UNCHANGED <<x, y, w, eta, momentum, delta_w, g2, gradient, denom, rng,
                   random_indices, i, jpos, w_batch, w_stoch, w_epoch,
                   w_momen, w_mepoch, next_cell, reruns, rng0, visited>>

-----------------------------------------------------------------------------
(* Cell 6: stochastic gradient descent with momentum *)

\* the momentum coefficient: the notebook sets 0.9; 0 is the no-inertia setting
MomentumValues == {0, (9 * Scale) \div 10}

MomentumUpdateFixedWeight(m, d, g) ==
    <<FMul(m, d[1]) + FMul(Scale \div 10, g[1]),
      FMul(m, d[2]) + FMul(Scale \div 10, g[2])>>

\* delta_w = momentum*delta_w + (1.-momentum)*G(...)
MomentumUpdate(m, d, g) ==
    <<FMul(m, d[1]) + FMul(Num(1) - m, g[1]),
      FMul(m, d[2]) + FMul(Num(1) - m, g[2])>>

\* w = np.array([0.,0.]); w_momen = [w.copy()]; w_mepoch = [w.copy()];
\* eta = 0.01; momentum = 0.9; delta_w = 0.0
\* (the scalar 0.0 broadcasts to the zero vector in the first update)
MomenBegin ==
    /\ CanRun(MomenCellNo) /\ Scheduled(MomenCellNo)
    /\ w' = ZeroVec
    /\ w_momen' = <<w'>>
    /\ w_mepoch' = <<w'>>
    /\ eta' = Scale \div 100
    /\ momentum' \in MomentumValues
    /\ delta_w' = ZeroVec
    /\ i' = 0
    /\ rng0' = rng
    /\ pc' = "momen_epoch"
    /\ UNCHANGED <<x, y, g2, gradient, denom, rng, random_indices, jpos,
                   w_batch, w_stoch, w_epoch, visited, runs>>

MomenDraw ==
    /\ pc = "momen_epoch" /\ i < Epochs
    /\ random_indices' = Choice(rng, Len(x))
    /\ rng' = rng + 1
    /\ jpos' = 1
    /\ visited' = <<>>
    /\ pc' = "momen_step"
    /\ UNCHANGED <<x, y, w, eta, momentum, delta_w, g2, gradient, denom, i,
                   w_batch, w_stoch, w_epoch, w_momen, w_mepoch, next_cell,
                   reruns, rng0, runs>>

\* delta_w = ...; w -= eta*delta_w; w_momen.append(w.copy())
MomenStep ==
    /\ pc = "momen_step" /\ jpos <= Len(random_indices)
    /\ LET j == random_indices[jpos]
       IN  /\ delta_w' = MomentumUpdate(momentum, delta_w,
                                        G(w, Sample(x, j), Sample(y, j)))
           /\ visited' = Append(visited, j)
    /\ w' = GradientStep(w, eta, delta_w')
    /\ w_momen' = Append(w_momen, w')
    /\ jpos' = jpos + 1
    /\ UNCHANGED <<x, y, eta, momentum, g2, gradient, denom, rng,
                   random_indices, i, w_batch, w_stoch, w_epoch, w_mepoch, pc,
                   next_cell, reruns, rng0, runs>>

\* w_mepoch.append(w.copy())
MomenEpochEnd ==
    /\ pc = "momen_step" /\ jpos > Len(random_indices)
    /\ w_mepoch' = Append(w_mepoch, w)
    /\ i' = i + 1
    /\ pc' = "momen_epoch"
    /\ UNCHANGED <<x, y, w, eta, momentum, delta_w, g2, gradient, denom, rng,
                   random_indices, jpos, w_batch, w_stoch, w_epoch, w_momen,
                   next_cell, reruns, rng0, visited, runs>>

MomenEnd ==
    /\ pc = "momen_epoch" /\ i = Epochs
    /\ pc' = "idle"
    /\ runs' = Append(runs, RunRecord("momen", w_momen, w_mepoch))
    /\ UNCHANGED <<x, y, w, eta, momentum, delta_w, g2, gradient, denom, rng,
                   random_indices, i, jpos, w_batch, w_stoch, w_epoch,
                   w_momen, w_mepoch, next_cell, reruns, rng0, visited>>

-----------------------------------------------------------------------------
(* Cell 7: RMSprop *)

\* the stabilizer 1e-8, in units of 1 / Fine
Epsilon == 1

\* what numpy stores for a division by zero (inf or nan, with a warning)
NonFinite == 20 * Fine

\* g2 = momentum*g2 + (1.-momentum)*gradient**2
SquareAverage(m, s, g) ==
    <<FMul(m, s[1]) + FMul(Num(1) - m, FMul(g[1], g[1])),
      FMul(m, s[2]) + FMul(Num(1) - m, FMul(g[2], g[2]))>>

DenominatorNoEpsilon(s) ==
    <<FSqrt(s[1]) * (Fine \div Scale), FSqrt(s[2]) * (Fine \div Scale)>>

\* np.sqrt(g2) + 1e-8, in units of 1 / Fine
Denominator(s) ==
    <<FSqrt(s[1]) * (Fine \div Scale) + Epsilon,
      FSqrt(s[2]) * (Fine \div Scale) + Epsilon>>

\* a / d for a fixed-point number a and a denominator d in units of 1 / Fine
FDivFine(a, d) == IF d = 0 THEN NonFinite ELSE RoundDiv(a * Fine, d)

\* w -= eta*gradient/(np.sqrt(g2) + 1e-8)
NormalizedStep(w_, eta_, g, d) ==
    <<w_[1] - FDivFine(FMul(eta_, g[1]), d[1]),
      w_[2] - FDivFine(FMul(eta_, g[2]), d[2])>>

\* w = np.array([0.,0.]); w_momen = [w.copy()]; w_mepoch = [w.copy()];
\* eta = 0.0001; momentum = 0.9; g2 = 0
\* (the cell reuses the names w_momen and w_mepoch of the momentum cell;
\*  the scalar 0 broadcasts to the zero vector in the first update)
RmsBegin ==
    /\ CanRun(RmsCellNo) /\ Scheduled(RmsCellNo)
    /\ w' = ZeroVec
    /\ w_momen' = <<w'>>
    /\ w_mepoch' = <<w'>>
    /\ eta' = Scale \div 10000
    /\ momentum' = (9 * Scale) \div 10
    /\ g2' = ZeroVec
    /\ i' = 0
    /\ rng0' = rng
    /\ pc' = "rms_epoch"
    /\ UNCHANGED <<x, y, delta_w, gradient, denom, rng, random_indices, jpos,
                   w_batch, w_stoch, w_epoch, visited, runs>>

RmsDraw ==
    /\ pc = "rms_epoch" /\ i < Epochs
    /\ random_indices' = Choice(rng, Len(x))
    /\ rng' = rng + 1
    /\ jpos' = 1
    /\ visited' = <<>>
    /\ pc' = "rms_step"
    /\ UNCHANGED <<x, y, w, eta, momentum, delta_w, g2, gradient, denom, i,
                   w_batch, w_stoch, w_epoch, w_momen, w_mepoch, next_cell,
                   reruns, rng0, runs>>

\* gradient = G(...); g2 = ...; w -= eta*gradient/(np.sqrt(g2) + 1e-8);
\* w_momen.append(w.copy())
RmsStep ==
    /\ pc = "rms_step" /\ jpos <= Len(random_indices)
    /\ LET j == random_indices[jpos]
       IN  /\ gradient' = G(w, Sample(x, j), Sample(y, j))
           /\ visited' = Append(visited, j)
    /\ g2' = SquareAverage(momentum, g2, gradient')
    /\ denom' = Denominator(g2')
    /\ w' = NormalizedStep(w, eta, gradient', denom')
    /\ w_momen' = Append(w_momen, w')
    /\ jpos' = jpos + 1
    /\ UNCHANGED <<x, y, eta, momentum, delta_w, rng, random_indices, i,
                   w_batch, w_stoch, w_epoch, w_mepoch, pc, next_cell, reruns,
                   rng0, runs>>

\* w_mepoch.append(w.copy())
RmsEpochEnd ==
    /\ pc = "rms_step" /\ jpos > Len(random_indices)
    /\ w_mepoch' = Append(w_mepoch, w)
    /\ i' = i + 1
    /\ pc' = "rms_epoch"
    /\ UNCHANGED <<x, y, w, eta, momentum, delta_w, g2, gradient, denom, rng,
                   random_indices, jpos, w_batch, w_stoch, w_epoch, w_momen,
                   next_cell, reruns, rng0, visited, runs>>

\* the loop is over: w_momen = np.array(w_momen)
RmsEnd ==
    /\ pc = "rms_epoch" /\ i = Epochs
    /\ pc' = "idle"
    /\ runs' = Append(runs, RunRecord("rms", w_momen, w_mepoch))
    /\ UNCHANGED <<x, y, w, eta, momentum, delta_w, g2, gradient, denom, rng,
                   random_indices, i, jpos, w_batch, w_stoch, w_epoch,
                   w_momen, w_mepoch, next_cell, reruns, rng0, visited>>

-----------------------------------------------------------------------------
(* The notebook *)

Next ==
    \/ SeedCell \/ DataCell \/ InitCell
    \/ BatchBegin \/ BatchIter \/ BatchEnd
    \/ StochBegin \/ StochDraw \/ StochStep \/ StochEpochEnd \/ StochEnd
    \/ MomenBegin \/ MomenDraw \/ MomenStep \/ MomenEpochEnd \/ MomenEnd
    \/ RmsBegin \/ RmsDraw \/ RmsStep \/ RmsEpochEnd \/ RmsEnd

Spec == Init /\ [][Next]_vars

-----------------------------------------------------------------------------
(* The gradient evaluator and the batch step on arbitrary inputs *)

Values == {Num(v) : v \in -MaxVal..MaxVal}
\* the independent values of the notebook are not negative
XValues == {Num(v) : v \in 0..MaxVal}
ArraysOf(S) == UNION {[1..n -> S] : n \in 0..MaxLen}

\* the dataset and parameters of the end-to-end scenario: the line y = x + 1
ScenarioX == <<0, Scale \div 2, Num(1)>>
ScenarioY == <<Num(1), Num(1) + Scale \div 2, Num(2)>>

\* a kernel in which w, x and y are defined and the batch cell is next
InitG ==
    /\ \/ /\ x \in ArraysOf(XValues) /\ y \in ArraysOf(Values)
          /\ w \in Values \X Values
       \/ /\ x = ScenarioX /\ y = ScenarioY
          /\ w = ZeroVec
    /\ eta = 0 /\ momentum = 0
    /\ delta_w = ZeroVec /\ g2 = ZeroVec
    /\ gradient = ZeroVec /\ denom = ZeroVec
    /\ rng = 0 /\ rng0 = 0
    /\ random_indices = <<>> /\ visited = <<>>
    /\ i = 0 /\ jpos = 0
    /\ w_batch = <<>> /\ w_stoch = <<>> /\ w_epoch = <<>>
    /\ w_momen = <<>> /\ w_mepoch = <<>>
    /\ pc = "idle" /\ next_cell = BatchCellNo /\ reruns = 0
    /\ runs = <<>>

\* one call gradient = G(w,x,y)
GEval ==
    /\ pc = "idle" /\ next_cell = BatchCellNo
    /\ IF GRaises(x, y)
       THEN /\ pc' = "raised"
            /\ UNCHANGED gradient
       ELSE /\ pc' = "returned"
            /\ gradient' = G(w, x, y)
    /\ UNCHANGED <<x, y, w, eta, momentum, delta_w, g2, denom, rng,
                   random_indices, i, jpos, w_batch, w_stoch, w_epoch,
                   w_momen, w_mepoch, next_cell, reruns, rng0, visited, runs>>

NextG == GEval \/ BatchBegin \/ BatchIter \/ BatchEnd

SpecG == InitG /\ [][NextG]_vars

-----------------------------------------------------------------------------
(* Claims about the gradient evaluator and the batch step (SpecG) *)

\* xs and ys have the same length, and it is at least 1
ValidSample(xs, ys) == Len(xs) = Len(ys) /\ Len(xs) >= 1

\* the kernel started from the end-to-end scenario and took a batch step
ScenarioStepped ==
    /\ x = ScenarioX /\ y = ScenarioY
    /\ Len(w_batch) >= 2 /\ w_batch[1] = ZeroVec

\* C1 (as stated): on x = [0, 0.5, 1], y = [1, 1.5, 2], w = [0, 0],
\* eta = 0.01, one batch step yields w = [0.045, 0.0225].
C1_AsStated ==
    ScenarioStepped => w_batch[2] = <<(45 * Scale) \div 1000, (225 * Scale) \div 10000>>

\* C1 (amended): on that dataset one batch step yields w = [0.045, 0.0275]:
\* G(w, x, y) = [-4.5, -2.75], and the slope moves by 0.01 * 2.75.
C1_ScenarioStep ==
    ScenarioStepped =>
        /\ eta = Scale \div 100
        /\ w_batch[2] = <<(45 * Scale) \div 1000, (275 * Scale) \div 10000>>

C1_Witness == ScenarioStepped /\ Len(w_batch) = 2

\* the sum over i = 1..n of f[i]
RECURSIVE Sigma(_, _)
Sigma(f, n) == IF n = 0 THEN 0 ELSE Sigma(f, n - 1) + f[n]

\* the gradient as the claim writes it
StatedGradient(w_, xs, ys) ==
    <<-Sigma([k \in 1..Len(xs) |-> ys[k] - w_[1] - FMul(w_[2], xs[k])], Len(xs)),
      -Sigma([k \in 1..Len(xs) |->
                FMul(ys[k] - w_[1] - FMul(w_[2], xs[k]), xs[k])], Len(xs))>>

\* L is quadratic in w, so its partial derivative is the central difference
\* (L(w + h) - L(w - h)) / 2h, here with h = 1
IsGradientOfL(g, w_, xs, ys) ==
    /\ 2 * g[1] = L(<<w_[1] + Num(1), w_[2]>>, xs, ys)
                    - L(<<w_[1] - Num(1), w_[2]>>, xs, ys)
    /\ 2 * g[2] = L(<<w_[1], w_[2] + Num(1)>>, xs, ys)
                    - L(<<w_[1], w_[2] - Num(1)>>, xs, ys)

\* C2: on every 2-vector w and equal-length non-empty xs, ys a call of G
\* returns (-sum(y_i - w0 - w1 x_i), -sum((y_i - w0 - w1 x_i) x_i)), which is
\* the gradient of L, and the call changes neither w nor the data.
C2_GradientFormula ==
    [][(pc = "idle" /\ pc' = "returned" /\ ValidSample(x, y)) =>
          /\ gradient' = StatedGradient(w, x, y)
          /\ IsGradientOfL(gradient', w, x, y)
          /\ Len(gradient') = Len(w)
          /\ w' = w /\ x' = x /\ y' = y]_vars

C2_Witness ==
    /\ pc = "returned" /\ ValidSample(x, y) /\ Len(x) = 2
    /\ gradient[1] # 0 /\ gradient[2] # 0 /\ gradient[1] # gradient[2]

\* C3: on valid inputs the update w - eta*G(w, xs, ys) with the notebook's
\* eta = 0.01 does not increase the loss on the same data.
C3_DescentDirection ==
    ValidSample(x, y) =>
        \A k \in 1..(Len(w_batch) - 1) :
            L(w_batch[k + 1], x, y) <= L(w_batch[k], x, y)

C3_Witness ==
    /\ ValidSample(x, y) /\ Len(w_batch) >= 2
    /\ L(w_batch[2], x, y) < L(w_batch[1], x, y)

\* C7: the gradient evaluator returns a value only when xs and ys have the
\* same length and are not empty; on any other input it raises.
C7_FailsOnMalformedInput ==
    pc = "returned" => ValidSample(x, y)

-----------------------------------------------------------------------------
(* Claims about the optimizer cells (Spec) *)

\* s holds each of 0..n-1 exactly once
IsPermutation(s, n) == Len(s) = n /\ {s[k] : k \in 1..Len(s)} = 0..(n - 1)

InEpoch == pc \in {"stoch_step", "momen_step", "rms_step"}
BetweenEpochs == pc \in {"stoch_epoch", "momen_epoch", "rms_epoch"}

\* C4: in the stochastic, momentum and RMSprop runs every epoch draws a
\* permutation of 0..m-1 anew (one draw from the stream per epoch begun),
\* the steps of the epoch take its entries in order, and when the epoch is
\* over every data point has been used for exactly one step.
C4_FreshPermutationEachEpoch ==
    /\ InEpoch =>
          /\ IsPermutation(random_indices, Len(x))
          /\ random_indices = Choice(rng - 1, Len(x))
          /\ rng = rng0 + i + 1
          /\ visited = SubSeq(random_indices, 1, jpos - 1)
    /\ (BetweenEpochs /\ i > 0) =>
          /\ IsPermutation(visited, Len(x))
          /\ visited = random_indices
          /\ rng = rng0 + i

C4_Witness ==
    /\ pc = "rms_epoch" /\ i = 2
    /\ IsPermutation(visited, Len(x))
    /\ visited # Choice(rng - 2, Len(x))

\* runs a and b of the log worked on the same dataset with the same eta
SameInputs(a, b) ==
    runs[a].x = runs[b].x /\ runs[a].y = runs[b].y /\ runs[a].eta = runs[b].eta

SameTrajectories(a, b) ==
    runs[a].steps = runs[b].steps /\ runs[a].epochs = runs[b].epochs

\* C5: a momentum run with momentum = 0 and a stochastic run on the same
\* dataset, eta and permutations (the same stream position at their start)
\* record identical per-step and per-epoch trajectories, and in such a
\* momentum run delta_w is the single-point gradient of the step just taken.
C5_ZeroMomentumIsStochastic ==
    /\ \A a, b \in 1..Len(runs) :
          (/\ runs[a].variant = "stoch"
           /\ runs[b].variant = "momen" /\ runs[b].momentum = 0
           /\ SameInputs(a, b) /\ runs[a].rng0 = runs[b].rng0)
          => SameTrajectories(a, b)
    /\ (pc = "momen_step" /\ momentum = 0 /\ Len(visited) >= 1) =>
          LET j == visited[Len(visited)]
          IN  delta_w = G(w_momen[Len(w_momen) - 1], Sample(x, j), Sample(y, j))

C5_Witness ==
    \E a, b \in 1..Len(runs) :
        /\ runs[a].variant = "stoch"
        /\ runs[b].variant = "momen" /\ runs[b].momentum = 0
        /\ SameInputs(a, b) /\ runs[a].rng0 = runs[b].rng0
        /\ Len(runs[b].steps) = 1 + Epochs * Len(x)
        /\ runs[b].steps[2] # ZeroVec

\* C6 (as stated): two stochastic runs of one kernel, seeded with
\* np.random.seed(0), on the same dataset record the same trajectory,
\* whatever else drew from the random stream.
C6_AsStated ==
    \A a, b \in 1..Len(runs) :
        (runs[a].variant = "stoch" /\ runs[b].variant = "stoch" /\ SameInputs(a, b))
        => SameTrajectories(a, b)

\* C6 (amended): two stochastic runs on the same dataset record the same
\* trajectory when they start at the same position of the random stream.
C6_SameStreamPosition ==
    \A a, b \in 1..Len(runs) :
        (/\ runs[a].variant = "stoch" /\ runs[b].variant = "stoch"
         /\ SameInputs(a, b) /\ runs[a].rng0 = runs[b].rng0)
        => SameTrajectories(a, b)

C6_Witness ==
    \E a, b \in 1..Len(runs) :
        /\ a < b
        /\ runs[a].variant = "stoch" /\ runs[b].variant = "stoch"
        /\ SameInputs(a, b) /\ runs[a].rng0 = runs[b].rng0
        /\ Len(runs[b].steps) = 1 + Epochs * Len(x)

\* C8: at every RMSprop step both components of sqrt(g2) + 1e-8 are
\* strictly positive, and at the first step of a run, where g2 was 0, they
\* are sqrt((1 - momentum) * gradient^2) + 1e-8.
C8_DenominatorPositive ==
    (pc = "rms_step" /\ Len(visited) >= 1) =>
        \A c \in 1..2 :
            /\ denom[c] > 0
            /\ (i = 0 /\ Len(visited) = 1) =>
                  denom[c] = FSqrt(FMul(Num(1) - momentum,
                                        FMul(gradient[c], gradient[c])))
                                * (Fine \div Scale) + Epsilon

C8_Witness ==
    /\ pc = "rms_step" /\ i = 0 /\ Len(visited) = 1
    /\ gradient[1] # 0 /\ gradient[2] = 0
    /\ denom[1] > Epsilon /\ denom[2] = Epsilon

\* C9: two batch runs from the same w with the same eta and dataset record
\* the same trajectory, and a batch run draws nothing from the random stream.
C9_BatchDeterministic ==
    /\ \A a, b \in 1..Len(runs) :
          (/\ runs[a].variant = "batch" /\ runs[b].variant = "batch"
           /\ SameInputs(a, b) /\ runs[a].steps[1] = runs[b].steps[1])
          => runs[a].steps = runs[b].steps
    /\ \A a \in 1..Len(runs) :
          runs[a].variant = "batch" => runs[a].rng1 = runs[a].rng0
    /\ pc = "batch" => rng = rng0

C9_Witness ==
    \E a, b \in 1..Len(runs) :
        /\ a < b
        /\ runs[a].variant = "batch" /\ runs[b].variant = "batch"
        /\ SameInputs(a, b) /\ runs[a].steps[1] = runs[b].steps[1]
        /\ runs[a].rng0 # runs[b].rng0
        /\ Len(runs[b].steps) = 1 + Epochs
        /\ runs[b].steps[2] # runs[b].steps[1]

\* C10: every run variant starts from w = (0, 0) and a zero accumulator,
\* whatever ran before it.
C10_RunsStartFromZero ==
    /\ (pc = "batch" /\ i = 0) => w = ZeroVec
    /\ (pc = "stoch_epoch" /\ i = 0) => w = ZeroVec
    /\ (pc = "momen_epoch" /\ i = 0) => (w = ZeroVec /\ delta_w = ZeroVec)
    /\ (pc = "rms_epoch" /\ i = 0) => (w = ZeroVec /\ g2 = ZeroVec)

\* the run in progress has completed `done` epochs and `extra` steps of the
\* next one: `steps` holds a snapshot per step, `epochs` one per epoch, both
\* after the initial w, and epoch snapshot k is step snapshot k*m
Recorded(steps, epochs, done, extra) ==
    /\ Len(steps) = 1 + done * Len(x) + extra
    /\ Len(epochs) = 1 + done
    /\ steps[1] = ZeroVec /\ epochs[1] = ZeroVec
    /\ steps[Len(steps)] = w
    /\ \A k \in 0..done : epochs[k + 1] = steps[k * Len(x) + 1]

\* C11: in the stochastic, momentum and RMSprop runs w is appended to the
\* per-step trajectory after every update and to the epoch trajectory at the
\* end of every epoch: after E epochs over m points they hold 1 + E*m and
\* 1 + E snapshots, both start with the initial w, and epoch snapshot k is
\* per-step snapshot k*m.
C11_TrajectoryRecording ==
    /\ pc = "stoch_epoch" => Recorded(w_stoch, w_epoch, i, 0)
    /\ pc = "stoch_step" => Recorded(w_stoch, w_epoch, i, jpos - 1)
    /\ pc \in {"momen_epoch", "rms_epoch"} => Recorded(w_momen, w_mepoch, i, 0)
    /\ pc \in {"momen_step", "rms_step"} => Recorded(w_momen, w_mepoch, i, jpos - 1)
    /\ \A a \in 1..Len(runs) :
          runs[a].variant # "batch" =>
              /\ Len(runs[a].steps) = 1 + Epochs * Len(runs[a].x)
              /\ Len(runs[a].epochs) = 1 + Epochs
              /\ \A k \in 0..Epochs :
                    runs[a].epochs[k + 1] = runs[a].steps[k * Len(runs[a].x) + 1]

C11_Witness ==
    /\ pc = "stoch_epoch" /\ i = 2
    /\ Len(w_stoch) = 1 + 2 * Len(x) /\ Len(w_epoch) = 3
    /\ w_epoch[2] # w_epoch[1] /\ w_epoch[3] # w_epoch[2]
    /\ \E a \in 1..Len(runs) : runs[a].variant = "rms"

\* s is t with at most one entry appended
Extends(t, s) ==
    /\ Len(t) <= Len(s) /\ Len(s) <= Len(t) + 1
    /\ SubSeq(s, 1, Len(t)) = t

\* C12: within a run every step leaves the recorded snapshots and the
\* dataset as they are: a trajectory changes only by one entry appended at
\* its end, and an update step appends the new w to the per-step trajectory
\* of its run although w itself is updated in place.
C12_TrajectoriesAppendOnly ==
    [][pc # "idle" =>
          /\ x' = x /\ y' = y
          /\ Extends(w_batch, w_batch') /\ Extends(w_stoch, w_stoch')
          /\ Extends(w_epoch, w_epoch') /\ Extends(w_momen, w_momen')
          /\ Extends(w_mepoch, w_mepoch')
          /\ (pc = "batch" /\ i' = i + 1) => w_batch' = Append(w_batch, w')
          /\ (pc = "stoch_step" /\ jpos' = jpos + 1) =>
                w_stoch' = Append(w_stoch, w')
          /\ (pc \in {"momen_step", "rms_step"} /\ jpos' = jpos + 1) =>
                w_momen' = Append(w_momen, w')]_vars

C12_Witness ==
    /\ pc = "stoch_step" /\ Len(w_stoch) >= 3
    /\ w_stoch[1] = ZeroVec /\ w_stoch[2] # w_stoch[1] /\ w_stoch[3] # w_stoch[2]
    /\ w = w_stoch[Len(w_stoch)]

=============================================================================
